---- MODULE Spec2Model ----
(***************************************************************************)
(* Model of src/app/[transport]/route.ts: the route module of the Deepgram *)
(* MCP server.  The module exports OPTIONS (CORS pre-flight) and GET/POST   *)
(* (the MCP handler with the single tool synthesizeSpeech).                *)
(*                                                                         *)
(* JavaScript values are represented as follows.  An optional value        *)
(* (undefined / null / absent property) is the empty tuple None, a present *)
(* value v is the one-element tuple Some(v).  Strings are TLA+ strings and *)
(* template literals are built with \o.  The handler's locals are request  *)
(* scoped (no mutable state is shared between invocations), so the model   *)
(* keeps the locals of one tool invocation and lets OPTIONS requests       *)
(* interleave with it at every await point.                                *)
(***************************************************************************)
EXTENDS Integers, Sequences, FiniteSets, TLC

VARIABLES
    env,            \* process.env: DEEPGRAM_API_KEY, UPLOADTHING_TOKEN
    moduleState,    \* "unloaded", "loaded" or "failed" (evaluation threw)
    deepgram,       \* the provider client created at line 22
    pc,             \* position of the tool invocation
    args,           \* arguments of the tool invocation
    speakCalls,     \* deepgram.speak.request calls made by the invocation
    response,       \* how the provider call settled
    buffer,         \* audio bytes read from response.result
    uploadCalls,    \* utapi.uploadFiles calls made by the invocation
    uploadRes,      \* how the upload call settled
    publicUrl,      \* local publicUrl of the handler
    thrown,         \* error caught by the handler's outer catch
    result,         \* value returned by the handler
    escaped,        \* exception that left the handler
    handled,        \* number of tool invocations completed so far
    optionsCount,   \* number of OPTIONS requests answered so far
    lastOptions     \* answer to the latest OPTIONS request

vars == <<env, moduleState, deepgram, pc, args, speakCalls, response, buffer,
          uploadCalls, uploadRes, publicUrl, thrown, result, escaped, handled,
          optionsCount, lastOptions>>

\* Bounds of the exploration.
MaxHandled == 2
MaxOptions == 2

----------------------------------------------------------------------------
\* Optional values and JavaScript truthiness.

None == <<>>
Some(v) == <<v>>
IsSome(o) == o # <<>>

\* Truthiness of an optional string: undefined, null and "" are falsy.
TruthyStr(o) == IsSome(o) /\ o[1] # ""

\* Truthiness of an optional object: objects are always truthy.
TruthyObj(o) == IsSome(o)

\* `${x}` of an optional string.
Str(o) == IF IsSome(o) THEN o[1] ELSE "undefined"

----------------------------------------------------------------------------
\* Values the environment can supply.

ApiKeys == {None, Some(""), Some("dg-key")}
ValidToken == Some("ut-token")
Tokens == {None, Some("bogus"), ValidToken}
Envs == [DEEPGRAM_API_KEY : ApiKeys, UPLOADTHING_TOKEN : Tokens]

Texts == {None, Some(""), Some("hello")}
Models == {None, Some(""), Some("aura-asteria-en")}
ToolArgs == [text : Texts, model : Models]

\* Bodies of an HTTP-response-shaped error: message and code properties,
\* and whether the object refers to itself (a cyclic structure).
Bodies == [message : {None, Some(""), Some("rate limited")},
           code : {None, Some(5)},
           cyclic : BOOLEAN]
Statuses == {429, 500}
ErrResponses == [status : Statuses, data : {None} \cup {Some(b) : b \in Bodies}]

\* Thrown values: null/undefined (nil) or an object with optional
\* response, request and message properties.
NilError == [nil |-> TRUE, response |-> None, request |-> None, message |-> None]
ErrorObjects == [nil : {FALSE},
                 response : {None} \cup {Some(r) : r \in ErrResponses},
                 request : {None, Some("ClientRequest")},
                 message : {None, Some(""), Some("socket hang up")}]
Errors == {NilError} \cup ErrorObjects

TypeError(m) == [nil |-> FALSE, response |-> None, request |-> None, message |-> Some(m)]

----------------------------------------------------------------------------
\* JSON.stringify of a response body (route.ts line 29).  undefined is
\* serialised to undefined, a cyclic structure throws a TypeError.

JsonMessage(b) == IF IsSome(b.message) THEN <<"\"message\":\"" \o b.message[1] \o "\"">> ELSE <<>>
JsonCode(b) == IF IsSome(b.code) THEN <<"\"code\":" \o ToString(b.code[1])>> ELSE <<>>

RECURSIVE Join(_)
Join(parts) ==
    IF Len(parts) = 0 THEN ""
    ELSE IF Len(parts) = 1 THEN parts[1]
    ELSE parts[1] \o "," \o Join(Tail(parts))

JSONStringify(data) ==
    IF ~IsSome(data) THEN [threw |-> FALSE, value |-> None]
    ELSE IF data[1].cyclic
         THEN [threw |-> TRUE, value |-> None]
         ELSE [threw |-> FALSE,
               value |-> Some("{" \o Join(JsonMessage(data[1]) \o JsonCode(data[1])) \o "}")]

CyclicError == TypeError("Converting circular structure to JSON")

----------------------------------------------------------------------------
\* handleApiError (route.ts lines 25-43).  The value is either a returned
\* result object or an exception thrown while the message is built.

TextBlock(t) == [type |-> "text", text |-> t]
ErrorResult(errorMessage) == [content |-> <<TextBlock("## Error\n\n" \o errorMessage)>>]

Returned(r) == [threw |-> FALSE, value |-> Some(r), error |-> None]
Threw(e) == [threw |-> TRUE, value |-> None, error |-> Some(e)]

\* error.response.data?.message || JSON.stringify(error.response.data)
BodyText(data) ==
    LET m == IF IsSome(data) THEN data[1].message ELSE None
    IN  IF TruthyStr(m) THEN [threw |-> FALSE, value |-> m]
        ELSE JSONStringify(data)

HasResponse(error) == TruthyObj(error.response)
HasRequest(error) == TruthyObj(error.request)
HasMessageNever(error) == FALSE
HasMessage(error) == TruthyStr(error.message)

\* Variant that looks at the request before the response.
handleApiErrorRequestFirst(error, defaultMessage) ==
    IF HasRequest(error) THEN
        Returned(ErrorResult(defaultMessage \o ": No response received"))
    ELSE IF HasResponse(error) THEN
        LET r == error.response[1]
            b == BodyText(r.data)
        IN  IF b.threw THEN Threw(CyclicError)
            ELSE Returned(ErrorResult(defaultMessage \o ": " \o ToString(r.status)
                                      \o " - " \o Str(b.value)))
    ELSE IF HasMessage(error) THEN
        Returned(ErrorResult(defaultMessage \o ": " \o error.message[1]))
    ELSE Returned(ErrorResult(defaultMessage))

handleApiError(error, defaultMessage) ==
    IF HasResponse(error) THEN
        LET r == error.response[1]
            b == BodyText(r.data)
        IN  IF b.threw THEN Threw(CyclicError)
            ELSE Returned(ErrorResult(defaultMessage \o ": " \o ToString(r.status)
                                      \o " - " \o Str(b.value)))
    ELSE IF HasRequest(error) THEN
        Returned(ErrorResult(defaultMessage \o ": No response received"))
    ELSE IF HasMessage(error) THEN
        Returned(ErrorResult(defaultMessage \o ": " \o error.message[1]))
    ELSE Returned(ErrorResult(defaultMessage))

----------------------------------------------------------------------------
\* Module initialisation (route.ts lines 17-22) and OPTIONS (lines 6-15).

\* Variant that only detects an undefined key.
KeyUndefined(e) == ~IsSome(e.DEEPGRAM_API_KEY)
KeyMissing(e) == ~TruthyStr(e.DEEPGRAM_API_KEY)

\* Variant answering 200.
OptionsResponseOk ==
    [status |-> 200,
     body |-> None,
     headers |-> {<<"Access-Control-Allow-Origin", "*">>,
                  <<"Access-Control-Allow-Methods", "GET, POST, OPTIONS">>,
                  <<"Access-Control-Allow-Headers", "Content-Type">>}]

OptionsResponse ==
    [status |-> 204,
     body |-> None,
     headers |-> {<<"Access-Control-Allow-Origin", "*">>,
                  <<"Access-Control-Allow-Methods", "GET, POST, OPTIONS">>,
                  <<"Access-Control-Allow-Headers", "Content-Type">>}]

\* What the host answers when evaluating the route module threw.
ModuleErrorResponse ==
    [status |-> 500,
     body |-> Some("DEEPGRAM_API_KEY environment variable is not set."),
     headers |-> {}]

----------------------------------------------------------------------------
\* Buffer.toString("base64") (route.ts line 63).

B64Chars ==
    <<"A","B","C","D","E","F","G","H","I","J","K","L","M","N","O","P",
      "Q","R","S","T","U","V","W","X","Y","Z","a","b","c","d","e","f",
      "g","h","i","j","k","l","m","n","o","p","q","r","s","t","u","v",
      "w","x","y","z","0","1","2","3","4","5","6","7","8","9","+","/">>
B64(n) == B64Chars[n + 1]

RECURSIVE Base64(_)
Base64(b) ==
    IF Len(b) = 0 THEN ""
    ELSE IF Len(b) = 1 THEN
        B64(b[1] \div 4) \o B64((b[1] % 4) * 16) \o "=="
    ELSE IF Len(b) = 2 THEN
        B64(b[1] \div 4) \o B64((b[1] % 4) * 16 + b[2] \div 16)
            \o B64((b[2] % 16) * 4) \o "="
    ELSE
        B64(b[1] \div 4) \o B64((b[1] % 4) * 16 + b[2] \div 16)
            \o B64((b[2] % 16) * 4 + b[3] \div 64) \o B64(b[3] % 64)
            \o Base64(SubSeq(b, 4, Len(b)))

----------------------------------------------------------------------------
\* The synthesizeSpeech tool (route.ts lines 48-103).

DefaultModel == "aura-2-thalia-en"

\* The zod schema of lines 51-54: text is a required string, model an
\* optional string.  z.string() places no constraint on the length.
SchemaTextOptional(a) == TRUE
SchemaAccepts(a) == IsSome(a.text)

\* model || "aura-2-thalia-en"
ModelIgnored(m) == DefaultModel
ModelOrDefault(m) == IF TruthyStr(m) THEN m[1] ELSE DefaultModel

\* deepgram.speak.request({ text }, { model: model || "aura-2-thalia-en" })
SpeakRequest(a) == [source |-> [text |-> a.text],
                    options |-> [model |-> ModelOrDefault(a.model)]]

\* How an awaited call settles: it throws an error or returns a value.
ThrowOutcome(e) == [threw |-> TRUE, error |-> Some(e), value |-> None]
ReturnOutcome(v) == [threw |-> FALSE, error |-> None, value |-> v]

SpeakOutcomes ==
    {ThrowOutcome(e) : e \in Errors}
    \cup {ReturnOutcome(None),
          ReturnOutcome(Some([result |-> None])),
          ReturnOutcome(Some([result |-> Some("Response")]))}

\* !response.result
ResultNeverMissing(resp) == FALSE
ResultMissing(resp) == ~IsSome(resp.result)

AudioBytes == {<<>>, <<255, 251>>, <<73, 68, 51>>}
ArrayBufferOutcomes ==
    {ThrowOutcome(e) : e \in Errors}
    \cup {ReturnOutcome(None)}
    \cup {ReturnOutcome(Some(b)) : b \in AudioBytes}

\* Date.now(), in a two-value clock.
Clock == {1000, 1001}
FileName(now) == "tts-audio-" \o ToString(now) \o ".mp3"
UTFile(bytes, name) == [parts |-> <<bytes>>, name |-> name, type |-> "audio/mpeg"]

UploadErrors == {TypeError("fetch failed"),
                 [nil |-> FALSE,
                  response |-> Some([status |-> 500,
                                     data |-> Some([message |-> None, code |-> None,
                                                    cyclic |-> TRUE])]),
                  request |-> None, message |-> None]}
UploadedFiles == {[data |-> None],
                  [data |-> Some([url |-> None])],
                  [data |-> Some([url |-> Some("")])],
                  [data |-> Some([url |-> Some("https://x/y.mp3")])]}
UploadFailures ==
    {ThrowOutcome(e) : e \in UploadErrors}
    \cup {ReturnOutcome(Some(<<[data |-> None]>>))}
\* The storage service hands out a url only to a valid token.
UploadOutcomes(token) ==
    IF token = ValidToken
    THEN UploadFailures
         \cup {ReturnOutcome(None), ReturnOutcome(Some(<<>>))}
         \cup {ReturnOutcome(Some(<<f>>)) : f \in UploadedFiles}
    ELSE UploadFailures

\* uploadRes[0]?.data?.url || "" inside the inner try: a throw of the
\* upload, or of uploadRes[0] on undefined, leaves publicUrl at "".
FirstUrl(o) ==
    IF o.threw \/ ~IsSome(o.value) THEN ""
    ELSE LET res == o.value[1]
         IN  IF Len(res) = 0 THEN ""
             ELSE IF ~IsSome(res[1].data) THEN ""
             ELSE IF TruthyStr(res[1].data[1].url) THEN res[1].data[1].url[1]
             ELSE ""

AudioBlock(base64Audio) == [type |-> "audio", data |-> base64Audio, mimeType |-> "audio/mpeg"]
ConfirmationBlock(text) ==
    TextBlock("Successfully synthesized speech! Referenced text: " \o Str(text))
LinkBlock(url) == TextBlock("[Download Link](" \o url \o ")")

\* Variant that pushes the link block without testing publicUrl.
SuccessResultAlwaysLink(bytes, text, url) ==
    [content |-> <<AudioBlock(Base64(bytes)), ConfirmationBlock(text), LinkBlock(url)>>]

\* Lines 79-98.
SuccessResult(bytes, text, url) ==
    [content |-> <<AudioBlock(Base64(bytes)), ConfirmationBlock(text)>>
                 \o (IF url # "" THEN <<LinkBlock(url)>> ELSE <<>>)]

----------------------------------------------------------------------------
\* The state machine.

Init ==
    /\ env \in Envs
    /\ moduleState = "unloaded"
    /\ deepgram = None
    /\ pc = "idle"
    /\ args = None
    /\ speakCalls = <<>>
    /\ response = None
    /\ buffer = None
    /\ uploadCalls = <<>>
    /\ uploadRes = None
    /\ publicUrl = ""
    /\ thrown = None
    /\ result = None
    /\ escaped = None
    /\ handled = 0
    /\ optionsCount = 0
    /\ lastOptions = None

invocation == <<pc, args, speakCalls, response, buffer, uploadCalls, uploadRes,
                publicUrl, thrown, result, escaped, handled>>

\* Evaluation of the route module: lines 17-22 throw when the key is
\* missing, otherwise the client and the handler are created.
LoadModule ==
    /\ moduleState = "unloaded"
    /\ IF KeyMissing(env)
       THEN /\ moduleState' = "failed"
            /\ deepgram' = None
       ELSE /\ moduleState' = "loaded"
            /\ deepgram' = Some([key |-> env.DEEPGRAM_API_KEY[1]])
    /\ UNCHANGED <<env, invocation, optionsCount, lastOptions>>

\* export async function OPTIONS() (lines 6-15).
OPTIONS ==
    /\ moduleState = "loaded"
    /\ optionsCount < MaxOptions
    /\ lastOptions' = Some(OptionsResponse)
    /\ optionsCount' = optionsCount + 1
    /\ UNCHANGED <<env, moduleState, deepgram, invocation>>

\* An OPTIONS request to a route whose module evaluation threw: the export
\* does not exist and the host answers with its own error response.
OptionsOnFailedModule ==
    /\ moduleState = "failed"
    /\ optionsCount < MaxOptions
    /\ lastOptions' = Some(ModuleErrorResponse)
    /\ optionsCount' = optionsCount + 1
    /\ UNCHANGED <<env, moduleState, deepgram, invocation>>

\* catch (error) { return handleApiError(error, "Failed to synthesize speech"); }
\* An exception thrown by handleApiError itself leaves the handler.
CatchOuter(error) ==
    LET h == handleApiError(error, "Failed to synthesize speech")
    IN  /\ thrown' = Some(error)
        /\ result' = h.value
        /\ escaped' = h.error
        /\ pc' = "done"

\* A tools/call request: the arguments are validated against the schema,
\* then the handler runs up to its first await (line 57).
Invoke(a) ==
    /\ moduleState = "loaded"
    /\ pc = "idle"
    /\ handled < MaxHandled
    /\ args' = Some(a)
    /\ IF SchemaAccepts(a)
       THEN /\ speakCalls' = Append(speakCalls, SpeakRequest(a))
            /\ pc' = "speak"
       ELSE /\ speakCalls' = speakCalls
            /\ pc' = "rejected"
    /\ UNCHANGED <<env, moduleState, deepgram, response, buffer, uploadCalls,
                   uploadRes, publicUrl, thrown, result, escaped, handled,
                   optionsCount, lastOptions>>

\* The provider call settles (lines 57-61).
SpeakSettles(o) ==
    /\ pc = "speak"
    /\ response' = Some(o)
    /\ IF o.threw THEN CatchOuter(o.error[1])
       ELSE IF ~IsSome(o.value)
       THEN CatchOuter(TypeError("Cannot read properties of undefined (reading 'result')"))
       ELSE IF ResultMissing(o.value[1])
       THEN LET h == handleApiError([nil |-> FALSE, response |-> None, request |-> None,
                                     message |-> Some("No audio result from Deepgram.")],
                                    "Deepgram TTS error")
            IN  IF h.threw THEN CatchOuter(h.error[1])
                ELSE /\ result' = h.value
                     /\ pc' = "done"
                     /\ UNCHANGED <<thrown, escaped>>
       ELSE /\ pc' = "arrayBuffer"
            /\ UNCHANGED <<thrown, result, escaped>>
    /\ UNCHANGED <<env, moduleState, deepgram, args, speakCalls, buffer,
                   uploadCalls, uploadRes, publicUrl, handled, optionsCount,
                   lastOptions>>

\* response.result.arrayBuffer() settles; on success the handler encodes
\* the bytes, builds the UTApi client and the file and starts the upload
\* (lines 61-72).
ArrayBufferSettles(o, now) ==
    /\ pc = "arrayBuffer"
    /\ IF o.threw
       THEN /\ CatchOuter(o.error[1])
            /\ UNCHANGED <<buffer, uploadCalls, publicUrl>>
       ELSE IF ~IsSome(o.value)
       THEN /\ CatchOuter(TypeError("The first argument must be of type string or an instance of Buffer, ArrayBuffer, or Array or an Array-like Object. Received undefined"))
            /\ UNCHANGED <<buffer, uploadCalls, publicUrl>>
       ELSE /\ buffer' = o.value
            /\ uploadCalls' = Append(uploadCalls,
                                     [token |-> env.UPLOADTHING_TOKEN,
                                      files |-> <<UTFile(o.value[1], FileName(now))>>])
            /\ publicUrl' = ""
            /\ pc' = "upload"
            /\ UNCHANGED <<thrown, result, escaped>>
    /\ UNCHANGED <<env, moduleState, deepgram, args, speakCalls, response,
                   uploadRes, handled, optionsCount, lastOptions>>

\* Variant without the inner try/catch: a throw of the upload reaches the
\* outer catch.
UploadSettlesUncaught(o) ==
    /\ pc = "upload"
    /\ uploadRes' = Some(o)
    /\ IF o.threw
       THEN /\ CatchOuter(o.error[1])
            /\ UNCHANGED publicUrl
       ELSE /\ publicUrl' = FirstUrl(o)
            /\ result' = Some(SuccessResult(buffer[1], args[1].text, FirstUrl(o)))
            /\ pc' = "done"
            /\ UNCHANGED <<thrown, escaped>>
    /\ UNCHANGED <<env, moduleState, deepgram, args, speakCalls, response,
                   buffer, uploadCalls, handled, optionsCount, lastOptions>>

\* utapi.uploadFiles settles; the handler assembles and returns the
\* success result (lines 72-98).
UploadSettles(o) ==
    /\ pc = "upload"
    /\ uploadRes' = Some(o)
    /\ publicUrl' = FirstUrl(o)
    /\ result' = Some(SuccessResult(buffer[1], args[1].text, FirstUrl(o)))
    /\ pc' = "done"
    /\ UNCHANGED <<env, moduleState, deepgram, args, speakCalls, response,
                   buffer, uploadCalls, thrown, escaped, handled, optionsCount,
                   lastOptions>>

\* The response of the invocation has been delivered; the locals are gone.
Finish ==
    /\ pc \in {"done", "rejected"}
    /\ pc' = "idle"
    /\ args' = None
    /\ speakCalls' = <<>>
    /\ response' = None
    /\ buffer' = None
    /\ uploadCalls' = <<>>
    /\ uploadRes' = None
    /\ publicUrl' = ""
    /\ thrown' = None
    /\ result' = None
    /\ escaped' = None
    /\ handled' = handled + 1
    /\ UNCHANGED <<env, moduleState, deepgram, optionsCount, lastOptions>>

Next ==
    \/ LoadModule
    \/ OPTIONS
    \/ OptionsOnFailedModule
    \/ \E a \in ToolArgs : Invoke(a)
    \/ \E o \in SpeakOutcomes : SpeakSettles(o)
    \/ \E o \in ArrayBufferOutcomes, now \in Clock : ArrayBufferSettles(o, now)
    \/ \E o \in UploadOutcomes(env.UPLOADTHING_TOKEN) : UploadSettles(o)
    \/ Finish

Spec == Init /\ [][Next]_vars

----------------------------------------------------------------------------
\* Shapes of the handler's result.

IsErrorShape(r) ==
    /\ Len(r.content) = 1
    /\ r.content[1].type = "text"

IsSuccessShape(r) ==
    /\ Len(r.content) \in {2, 3}
    /\ r.content[1].type = "audio"
    /\ \A i \in 2..Len(r.content) : r.content[i].type = "text"

\* The invocation has ended: the handler returned or threw.
Ended == pc = "done"

----------------------------------------------------------------------------
\* C1: every invocation of the synthesizeSpeech handler ends by returning a
\* well-formed result object (the success shape or a single error text
\* block); no exception leaves the handler, whatever the provider call, the
\* audio read or the upload did.
C1_NeverThrows ==
    Ended => /\ escaped = None
             /\ IsSome(result)
             /\ (IsErrorShape(result[1]) \/ IsSuccessShape(result[1]))

----------------------------------------------------------------------------
\* C2: once the audio bytes have been read, a failure of the upload is
\* swallowed: the handler returns the success result with the audio block
\* and the confirmation block, only the download link is missing, and the
\* result is never a failure result.
C2_UploadFailureSwallowed ==
    /\ (Ended /\ IsSome(buffer)) =>
            /\ escaped = None
            /\ thrown = None
            /\ IsSome(result)
            /\ IsSuccessShape(result[1])
            /\ result[1].content[1] =
                   [type |-> "audio", data |-> Base64(buffer[1]), mimeType |-> "audio/mpeg"]
    /\ (Ended /\ IsSome(uploadRes) /\ uploadRes[1] \in UploadFailures) =>
            /\ Len(result[1].content) = 2
            /\ result[1].content[2].text =
                   "Successfully synthesized speech! Referenced text: " \o args[1].text[1]

\* An upload attempted without a token threw, and the handler returned the
\* success result without the link.
C2_Witness ==
    /\ Ended
    /\ env.UPLOADTHING_TOKEN = None
    /\ IsSome(uploadRes)
    /\ uploadRes[1].threw
    /\ IsSome(result)
    /\ Len(result[1].content) = 2
    /\ result[1].content[1].type = "audio"

----------------------------------------------------------------------------
\* C4: when the provider call returns a response whose result is falsy, the
\* handler returns the single text block
\* "## Error\n\nDeepgram TTS error: No audio result from Deepgram." and
\* neither reads audio nor uploads.
NoResultReturned ==
    /\ IsSome(response)
    /\ ~response[1].threw
    /\ IsSome(response[1].value)
    /\ response[1].value[1].result = None

C4_NoAudioResult ==
    (Ended /\ NoResultReturned) =>
        /\ escaped = None
        /\ result = Some([content |->
               <<[type |-> "text",
                  text |-> "## Error\n\nDeepgram TTS error: No audio result from Deepgram."]>>])
        /\ buffer = None
        /\ uploadCalls = <<>>

C4_Witness ==
    /\ Ended
    /\ NoResultReturned
    /\ IsSome(result)
    /\ Len(result[1].content) = 1

----------------------------------------------------------------------------
\* C5: on a successful synthesis the content list contains a
\* "[Download Link](<url>)" block exactly when the upload returned without
\* throwing and gave a non-empty url for the first file; the block is then
\* the last one, after the audio block and the confirmation block, and
\* carries exactly that url.
ReturnedUrl ==
    IF /\ IsSome(uploadRes)
       /\ ~uploadRes[1].threw
       /\ IsSome(uploadRes[1].value)
       /\ Len(uploadRes[1].value[1]) > 0
       /\ IsSome(uploadRes[1].value[1][1].data)
       /\ IsSome(uploadRes[1].value[1][1].data[1].url)
    THEN uploadRes[1].value[1][1].data[1].url[1]
    ELSE ""

IsLinkBlock(b) ==
    /\ b.type = "text"
    /\ \E u \in {"", "https://x/y.mp3"} : b.text = "[Download Link](" \o u \o ")"

C5_DownloadLink ==
    (Ended /\ IsSome(uploadRes)) =>
        LET c == result[1].content
        IN  /\ (\E i \in DOMAIN c : IsLinkBlock(c[i])) <=> (ReturnedUrl # "")
            /\ c[1].type = "audio"
            /\ c[2].type = "text"
            /\ ~IsLinkBlock(c[2])
            /\ (ReturnedUrl # "") =>
                   /\ Len(c) = 3
                   /\ c[3] = [type |-> "text",
                              text |-> "[Download Link](" \o ReturnedUrl \o ")"]

C5_Witness ==
    /\ Ended
    /\ ReturnedUrl = "https://x/y.mp3"
    /\ IsSome(result)
    /\ Len(result[1].content) = 3
    /\ result[1].content[3].text = "[Download Link](https://x/y.mp3)"

----------------------------------------------------------------------------
\* C8: while DEEPGRAM_API_KEY is not set, the module evaluation has thrown
\* before the client and the handler exist: no client is created, no tool
\* invocation is handled, no provider call is made and no result of an
\* invocation is returned.
C8_FatalWithoutKey ==
    (env.DEEPGRAM_API_KEY \in {None, Some("")}) =>
        /\ moduleState # "loaded"
        /\ deepgram = None
        /\ pc = "idle"
        /\ args = None
        /\ speakCalls = <<>>
        /\ uploadCalls = <<>>
        /\ result = None
        /\ handled = 0

C8_Witness ==
    /\ env.DEEPGRAM_API_KEY = None
    /\ moduleState = "failed"
    /\ optionsCount > 0

----------------------------------------------------------------------------
\* C10: within one invocation exactly one provider call is made and at most
\* one upload call; the upload starts only after the provider call returned
\* a truthy result and the audio bytes were read, never when the provider
\* call threw or returned no result; a failed call is not repeated.
ProviderReturnedAudio ==
    /\ IsSome(response)
    /\ ~response[1].threw
    /\ IsSome(response[1].value)
    /\ IsSome(response[1].value[1].result)

C10_SequentialCalls ==
    /\ pc \in {"speak", "arrayBuffer", "upload", "done"} => Len(speakCalls) = 1
    /\ pc \in {"idle", "rejected"} => speakCalls = <<>>
    /\ pc = "speak" => response = None
    /\ Len(uploadCalls) <= 1
    /\ uploadCalls # <<>> =>
            /\ ProviderReturnedAudio
            /\ IsSome(buffer)
            /\ uploadCalls[1].files[1].parts = <<buffer[1]>>
    /\ IsSome(uploadRes) => uploadCalls # <<>>
    /\ pc = "upload" => uploadRes = None

\* The upload failed after the provider call succeeded: one call each.
C10_Witness ==
    /\ Ended
    /\ Len(speakCalls) = 1
    /\ Len(uploadCalls) = 1
    /\ IsSome(uploadRes)
    /\ uploadRes[1].threw

----------------------------------------------------------------------------
\* C3: the failure message of handleApiError is chosen in priority order:
\* response ("<default>: <status> - <body message>"), then request
\* ("<default>: No response received"), then message
\* ("<default>: <message>"), otherwise the default string alone.
\* The statement as written, with "has" read as "is truthy" and the body
\* message read as the message property of the body:
ClaimedMessage(e) ==
    LET d == "Failed to synthesize speech"
    IN  IF IsSome(e.response) THEN
            d \o ": " \o ToString(e.response[1].status) \o " - "
              \o Str(IF IsSome(e.response[1].data)
                     THEN e.response[1].data[1].message ELSE None)
        ELSE IF IsSome(e.request) THEN d \o ": No response received"
        ELSE IF e.message \notin {None, Some("")} THEN d \o ": " \o e.message[1]
        ELSE d

C3_Original ==
    (Ended /\ IsSome(thrown) /\ IsSome(result)) =>
        result[1].content =
            <<[type |-> "text", text |-> "## Error\n\n" \o ClaimedMessage(thrown[1])]>>

\* C3 as amended: a body without a non-empty message contributes its JSON
\* text in place of the message.
AmendedMessage(e) ==
    LET d == "Failed to synthesize speech"
    IN  IF e.response # None THEN
            LET r == e.response[1]
                m == IF r.data # None THEN r.data[1].message ELSE None
            IN  d \o ": " \o ToString(r.status) \o " - "
                  \o (IF m \notin {None, Some("")} THEN m[1]
                      ELSE Str(JSONStringify(r.data).value))
        ELSE IF e.request # None THEN d \o ": No response received"
        ELSE IF e.message \notin {None, Some("")} THEN d \o ": " \o e.message[1]
        ELSE d

RateLimited ==
    [status |-> 429,
     data |-> Some([message |-> Some("rate limited"), code |-> None, cyclic |-> FALSE])]

C3_Amended ==
    (Ended /\ IsSome(thrown) /\ IsSome(result)) =>
        /\ result[1].content =
               <<[type |-> "text", text |-> "## Error\n\n" \o AmendedMessage(thrown[1])]>>
        /\ (thrown[1].response = Some(RateLimited)) =>
               result[1].content[1].text =
                   "## Error\n\nFailed to synthesize speech: 429 - rate limited"
        /\ (thrown[1].response = None /\ thrown[1].request # None) =>
               result[1].content[1].text =
                   "## Error\n\nFailed to synthesize speech: No response received"
        /\ (thrown[1].response = None /\ thrown[1].request = None
                /\ thrown[1].message = Some("socket hang up")) =>
               result[1].content[1].text =
                   "## Error\n\nFailed to synthesize speech: socket hang up"
        /\ (thrown[1].response = None /\ thrown[1].request = None
                /\ thrown[1].message \in {None, Some("")}) =>
               result[1].content[1].text = "## Error\n\nFailed to synthesize speech"

\* The provider threw a 429 error that also carries a request and a
\* message; the response won.
C3_Witness ==
    /\ Ended
    /\ IsSome(thrown)
    /\ thrown[1].response = Some(RateLimited)
    /\ thrown[1].request # None
    /\ thrown[1].message = Some("socket hang up")
    /\ IsSome(result)
    /\ result[1].content[1].text =
           "## Error\n\nFailed to synthesize speech: 429 - rate limited"

----------------------------------------------------------------------------
\* C6: the provider call carries the request's text unchanged, and as model
\* the default "aura-2-thalia-en" when model is omitted and the supplied
\* model when one is supplied.
C6_Original ==
    \A i \in DOMAIN speakCalls :
        /\ speakCalls[i].source.text = args[1].text
        /\ speakCalls[i].options.model =
               (IF IsSome(args[1].model) THEN args[1].model[1] ELSE "aura-2-thalia-en")

\* C6 as amended: the default is also used when the supplied model is the
\* empty string.
C6_Amended ==
    \A i \in DOMAIN speakCalls :
        /\ speakCalls[i].source.text = args[1].text
        /\ args[1].model \in {None, Some("")} =>
               speakCalls[i].options.model = "aura-2-thalia-en"
        /\ args[1].model \notin {None, Some("")} =>
               speakCalls[i].options.model = args[1].model[1]

C6_Witness ==
    /\ Len(speakCalls) = 1
    /\ args[1].text = Some("hello")
    /\ args[1].model = Some("")
    /\ speakCalls[1].source.text = Some("hello")
    /\ speakCalls[1].options.model = "aura-2-thalia-en"

----------------------------------------------------------------------------
\* C7: an OPTIONS request always gets status 204, an empty body and the
\* three CORS headers, whatever the configuration and the other requests,
\* and makes no provider or upload call.
C7_Original ==
    IsSome(lastOptions) =>
        lastOptions[1] =
            [status |-> 204,
             body |-> None,
             headers |-> {<<"Access-Control-Allow-Origin", "*">>,
                          <<"Access-Control-Allow-Methods", "GET, POST, OPTIONS">>,
                          <<"Access-Control-Allow-Headers", "Content-Type">>}]

\* C7 as amended: that holds of every OPTIONS request answered by a module
\* whose evaluation succeeded, that is, when DEEPGRAM_API_KEY is set.
C7_Amended ==
    [][(optionsCount' # optionsCount /\ env.DEEPGRAM_API_KEY \notin {None, Some("")}) =>
           /\ lastOptions' =
                  Some([status |-> 204,
                        body |-> None,
                        headers |-> {<<"Access-Control-Allow-Origin", "*">>,
                                     <<"Access-Control-Allow-Methods", "GET, POST, OPTIONS">>,
                                     <<"Access-Control-Allow-Headers", "Content-Type">>}])
           /\ speakCalls' = speakCalls
           /\ uploadCalls' = uploadCalls
           /\ pc' = pc
           /\ result' = result]_vars

\* OPTIONS was answered while an upload was in flight, after an earlier
\* invocation, with no upload token configured.
C7_Witness ==
    /\ IsSome(lastOptions)
    /\ lastOptions[1].status = 204
    /\ optionsCount = MaxOptions
    /\ pc = "upload"
    /\ handled > 0
    /\ env.UPLOADTHING_TOKEN = None

----------------------------------------------------------------------------
\* C9: the text of a request is a required, non-empty string: an invocation
\* whose text is the empty string is rejected by the schema and never
\* reaches the provider call.
C9_Original ==
    /\ \A i \in DOMAIN speakCalls : speakCalls[i].source.text # Some("")
    /\ (IsSome(args) /\ args[1].text = Some("")) => pc = "rejected"

\* C9 as amended: the text is a required string: an invocation without a
\* text is rejected and never reaches the provider call, while the empty
\* string passes the schema and is sent to the provider.
C9_Amended ==
    /\ \A i \in DOMAIN speakCalls : IsSome(speakCalls[i].source.text)
    /\ (IsSome(args) /\ args[1].text = None) =>
            /\ pc = "rejected"
            /\ speakCalls = <<>>
            /\ result = None
    /\ (IsSome(args) /\ args[1].text # None) =>
            /\ pc # "rejected"
            /\ Len(speakCalls) = 1
            /\ speakCalls[1].source.text = args[1].text

C9_Witness ==
    /\ IsSome(args)
    /\ args[1].text = Some("")
    /\ pc = "speak"
    /\ Len(speakCalls) = 1
    /\ speakCalls[1].source.text = Some("")

====
